---- MODULE Spec2Model ----
(***************************************************************************)
(* A model of the eucalyptus front end and evaluator:                      *)
(*   - the environment tables (SymTab, TypeTab, ValTab),                   *)
(*   - the three AST passes (visit, get_type, eval) and the main loop      *)
(*     that drives them over the parsed statements,                        *)
(*   - the operator-folding routine of the parser (Parser::operation).     *)
(*                                                                         *)
(* Encoding.  Every enum value is a tuple whose first element is the       *)
(* variant name:                                                           *)
(*   Expression  <<"Number", n>>  <<"Bool", b>>  <<"Str", s>>              *)
(*               <<"Char", c>>  <<"Array", <<e, ..>>>>                      *)
(*               <<"Identifier", name>>  <<"Operation", left, op, right>>  *)
(*               <<"Lambda", params, body>>  <<"Call", callee, args>>      *)
(*               <<"Index", id, index>>  <<"Block", <<s, ..>>>>  <<"EOF">>  *)
(*   Statement   <<"Expression", e>>  <<"Binding", left, right>>           *)
(*               <<"Function", name, params, body>>                        *)
(*               <<"Assignment", left, right>>                             *)
(*   Value       <<"Number", n>> <<"Bool", b>> <<"Str", s>> <<"Char", c>>  *)
(*               <<"Array", <<v, ..>>>>  <<"Function", params, body>>       *)
(*               <<"Nil">>                                                 *)
(*   Type        <<"Number">> <<"Str">> <<"Char">> <<"Bool">>              *)
(*               <<"Array", <<t, ..>>>>  <<"Any">>  <<"Undefined">>         *)
(*   RunResult   <<"Ok", x>>  <<"Err", message>>; a panic (unwrap on Err,  *)
(*               Vec::remove out of range, unreachable!) is <<"Panic", m>> *)
(* A table with its parent chain (Rc<..> with parent: Option<Rc<..>>) is   *)
(* the sequence of slot arrays from the table itself (element 1) up to the *)
(* global table (last element).  Slots and depths are 0-based as in the    *)
(* code.  f64 numbers are modelled on the integers.                        *)
(***************************************************************************)
EXTENDS Integers, Sequences, FiniteSets, TLC

\* ------------------------------------------------------------------ bounds
\* Longest program (number of top-level statements) the main loop is run on.
MaxStmts == 3
\* Longest operator chain (number of operators) handed to Parser::operation.
MaxOps == 3
\* Longest array literal among the operands of the single-expression programs.
MaxLen == 2
\* Most tables in a ValTab chain, and most slots in one table, the table
\* operations are run on.
MaxDepth == 2
MaxSlots == 2

\* ------------------------------------------------------------- result values
Ok(x)     == <<"Ok", x>>
Err(m)    == <<"Err", m>>
Panic(m)  == <<"Panic", m>>
IsOk(r)   == r[1] = "Ok"
IsErr(r)  == r[1] = "Err"
IsPanic(r) == r[1] = "Panic"

Nil        == <<"Nil">>
NumberV(n) == <<"Number", n>>
ArrayV(c)  == <<"Array", c>>
FunctionV(params, body) == <<"Function", params, body>>

TNumber    == <<"Number">>
TStr       == <<"Str">>
TChar      == <<"Char">>
TBool      == <<"Bool">>
TAny       == <<"Any">>
TUndefined == <<"Undefined">>
TArray(c)  == <<"Array", c>>

\* Position (1-based) of the first occurrence of x in seq, 0 when absent.
Position(seq, x) ==
    IF \E i \in 1..Len(seq) : seq[i] = x
    THEN CHOOSE i \in 1..Len(seq) : seq[i] = x /\ \A j \in 1..(i - 1) : seq[j] # x
    ELSE 0

\* Vec::remove(index) as used by Index: the removed element, or a panic when
\* index >= len.  The vector it is applied to is a clone.
remove(content, index) ==
    IF index < Len(content) THEN Ok(content[index + 1])
    ELSE Panic(<<"removal index out of bounds">>)

\* `n as usize` on an integral f64: negative numbers saturate to 0.
as_usize(n) == IF n < 0 THEN 0 ELSE n

\* ------------------------------------------------------------------ SymTab
\* SymTab::new(parent, names): a child table holding names, parented at parent.
SymTab_new(parent, names) == <<names>> \o parent

SymTab_new_global == << <<>> >>

\* add_name: the slot of name in this table, appended when absent.
add_name(sym, name) ==
    IF Position(sym[1], name) # 0
    THEN [index |-> Position(sym[1], name) - 1, sym |-> sym]
    ELSE [index |-> Len(sym[1]), sym |-> [sym EXCEPT ![1] = Append(@, name)]]

\* get_name: (slot, depth) of the nearest declaration of name, searching
\* this table first and then the parents with depth + 1.
RECURSIVE get_name_from(_, _, _)
get_name_from(sym, name, depth) ==
    IF Position(sym[1], name) # 0 THEN <<"Some", Position(sym[1], name) - 1, depth>>
    ELSE IF Len(sym) > 1 THEN get_name_from(Tail(sym), name, depth + 1)
    ELSE <<"None">>

get_name(sym, name) == get_name_from(sym, name, 0)

\* ------------------------------------------------------------------ TypeTab
TypeTab_new_global == << <<>> >>

RECURSIVE TypeTab_set_type(_, _, _, _)
TypeTab_set_type(env, index, env_index, t) ==
    IF env_index = 0
    THEN IF index < Len(env[1])
         THEN Ok([env EXCEPT ![1][index + 1] = t])
         ELSE Err(<<"can't set type of invalid type index">>)
    ELSE IF Len(env) > 1
         THEN LET p == TypeTab_set_type(Tail(env), index, env_index - 1, t)
              IN  IF IsOk(p) THEN Ok(<<env[1]>> \o p[2]) ELSE p
         ELSE Err(<<"can't set type with invalid env index">>)

RECURSIVE TypeTab_get_type(_, _, _)
TypeTab_get_type(env, index, env_index) ==
    IF env_index = 0
    THEN IF index < Len(env[1])
         THEN Ok(env[1][index + 1])
         ELSE Err(<<"can't get type of invalid type index">>)
    ELSE IF Len(env) > 1
         THEN TypeTab_get_type(Tail(env), index, env_index - 1)
         ELSE Err(<<"can't get type with invalid type index">>)

TypeTab_size(env) == Len(env[1])

TypeTab_grow(env) == [env EXCEPT ![1] = Append(@, TAny)]

\* ------------------------------------------------------------------ ValTab
ValTab_new(parent, types) == <<types>> \o parent

ValTab_new_global == << <<>> >>

RECURSIVE set_value(_, _, _, _)
set_value_current(env, index, env_index, t) ==
    IF index < Len(env[1])
    THEN Ok([env EXCEPT ![1][index + 1] = t])
    ELSE Err(<<"can't set value of invalid value index">>)

set_value(env, index, env_index, t) ==
    IF env_index = 0
    THEN IF index < Len(env[1])
         THEN Ok([env EXCEPT ![1][index + 1] = t])
         ELSE Err(<<"can't set value of invalid value index">>)
    ELSE IF Len(env) > 1
         THEN LET p == set_value(Tail(env), index, env_index - 1, t)
              IN  IF IsOk(p) THEN Ok(<<env[1]>> \o p[2]) ELSE p
         ELSE Err(<<"can't set value with invalid env index">>)

RECURSIVE get_value(_, _, _)
get_value(env, index, env_index) ==
    IF env_index = 0
    THEN IF index < Len(env[1])
         THEN Ok(env[1][index + 1])
         ELSE Err(<<"can't get value of invalid value index">>)
    ELSE IF Len(env) > 1
         THEN get_value(Tail(env), index, env_index - 1)
         ELSE Err(<<"can't get value with invalid value index">>)

ValTab_size(env) == Len(env[1])

ValTab_grow(env) == [env EXCEPT ![1] = Append(@, Nil)]

\* ------------------------------------------------------------ f64 arithmetic
\* Numbers are f64 in the code; the model computes on the integers, where
\* + - * are exact.  A result that is not an integral finite number (an inexact
\* quotient, a division by zero, a negative exponent) is outside the model's
\* numbers and is marked as such; the programs explored never produce one.
Abs(n) == IF n < 0 THEN -n ELSE n

OutOfModel(what) == <<"Number", <<what>>>>

f64_pow(a, b) == IF b >= 0 THEN NumberV(a ^ b) ELSE OutOfModel("powf")

f64_div(a, b) ==
    IF b # 0 /\ Abs(a) % Abs(b) = 0
    THEN NumberV((IF (a < 0) = (b < 0) THEN 1 ELSE -1) * (Abs(a) \div Abs(b)))
    ELSE OutOfModel("div")

\* f64 `%` is the truncated remainder: it takes the sign of the dividend.
f64_rem(a, b) ==
    IF b # 0
    THEN NumberV(IF a >= 0 THEN a % Abs(b) ELSE -((-a) % Abs(b)))
    ELSE OutOfModel("rem")

\* Str contents are sequences of code points and Char contents are code
\* points, so that the orderings of String and char can be computed.
RECURSIVE StrLt(_, _)
StrLt(a, b) ==
    IF Len(b) = 0 THEN FALSE
    ELSE IF Len(a) = 0 THEN TRUE
    ELSE IF a[1] # b[1] THEN a[1] < b[1]
    ELSE StrLt(Tail(a), Tail(b))

\* ------------------------------------------------------------------ Evaluator
RECURSIVE Expression_eval(_, _, _)
RECURSIVE eval_each(_, _, _)
RECURSIVE Operation_eval(_, _, _)
RECURSIVE Call_eval(_, _, _)
RECURSIVE Index_eval(_, _, _)
RECURSIVE Statement_eval(_, _, _)
RECURSIVE Binding_eval(_, _, _)
RECURSIVE Assignment_eval(_, _, _)

\* `for c in content { stack.push(c.eval(sym, env)?) }`: the values of the
\* expressions in order, or the first error.
eval_each(content, sym, env) ==
    IF Len(content) = 0 THEN Ok(<<>>)
    ELSE LET h == Expression_eval(Head(content), sym, env)
         IN  IF ~IsOk(h) THEN h
             ELSE LET t == eval_each(Tail(content), sym, env)
                  IN  IF ~IsOk(t) THEN t ELSE Ok(<<h[2]>> \o t[2])

\* Lambda::eval: the Function value holds the parameters and the body's
\* statements; it holds no table.
Lambda_eval(lambda) ==
    LET body == IF lambda[3][1] = "Block" THEN lambda[3][2]
                ELSE << <<"Expression", lambda[3]>> >>
    IN  Ok(FunctionV(lambda[2], body))

\* Expression::eval.  No expression writes to the tables it is given: the
\* only statement an expression evaluates is the last statement of a called
\* body, and that runs on the call's own tables, dropped when the call returns.
Expression_eval(e, sym, env) ==
    CASE e[1] = "Number" -> Ok(e)
      [] e[1] = "Bool"   -> Ok(e)
      [] e[1] = "Str"    -> Ok(e)
      [] e[1] = "Char"   -> Ok(e)
      [] e[1] = "Block"  ->
            IF Len(e[2]) > 0
            THEN Statement_eval(e[2][Len(e[2])], sym, env).r
            ELSE Err(<<"found empty block">>)
      [] e[1] = "Array"  ->
            LET stack == eval_each(e[2], sym, env)
            IN  IF IsOk(stack) THEN Ok(ArrayV(stack[2])) ELSE stack
      [] e[1] = "Index"  -> Index_eval(e, sym, env)
      [] e[1] = "Identifier" ->
            LET n == get_name(sym, e[2])
            IN  IF n[1] = "Some" THEN get_value(env, n[2], n[3])
                ELSE Err(<<e[2], "undeclared use">>)
      [] e[1] = "Operation" -> Operation_eval(e, sym, env)
      [] e[1] = "Lambda"    -> Lambda_eval(e)
      [] e[1] = "Call"      -> Call_eval(e, sym, env)
      [] OTHER -> Ok(Nil)

\* `a == b` on two Values: the derived PartialEq of Value (valtab.rs 7),
\* variant by variant and element by element.
Equals_by_length(a, b) ==
    IF a[1] = "Array" /\ b[1] = "Array" THEN Len(a[2]) = Len(b[2]) ELSE a = b

Equals(a, b) == a = b

\* The match arms of Operation::eval on the two operand values.
Operate(op, a, b) ==
    LET nn == a[1] = "Number" /\ b[1] = "Number"
        ss == a[1] = "Str"    /\ b[1] = "Str"
        cc == a[1] = "Char"   /\ b[1] = "Char"
        aa == a[1] = "Array"  /\ b[1] = "Array"
        Bool(x) == <<"Bool", x>>
    IN  CASE op = "Pow" -> IF nn THEN f64_pow(a[2], b[2]) ELSE Nil
          [] op = "Mul" -> IF nn THEN NumberV(a[2] * b[2]) ELSE Nil
          [] op = "Div" -> IF nn THEN f64_div(a[2], b[2]) ELSE Nil
          [] op = "Mod" -> IF nn THEN f64_rem(a[2], b[2]) ELSE Nil
          [] op = "Add" -> IF nn THEN NumberV(a[2] + b[2])
                           ELSE IF a[1] = "Array" THEN ArrayV(Append(a[2], b))
                           ELSE Nil
          [] op = "Sub" -> IF nn THEN NumberV(a[2] - b[2]) ELSE Nil
          [] op = "Equal"  -> Bool(Equals(a, b))
          [] op = "NEqual" -> Bool(~Equals(a, b))
          [] op = "Lt" ->
                IF nn THEN Bool(a[2] < b[2])
                ELSE IF ss THEN Bool(StrLt(a[2], b[2]))
                ELSE IF cc THEN Bool(a[2] < b[2])
                ELSE IF aa THEN Bool(Len(a[2]) < Len(b[2]))
                ELSE Nil
          [] op = "Gt" ->
                IF nn THEN Bool(a[2] > b[2])
                ELSE IF ss THEN Bool(StrLt(b[2], a[2]))
                ELSE IF cc THEN Bool(a[2] > b[2])
                ELSE IF aa THEN Bool(Len(a[2]) > Len(b[2]))
                ELSE Nil
          [] op = "LtEqual" ->
                IF nn THEN Bool(a[2] <= b[2])
                ELSE IF ss THEN Bool(~StrLt(b[2], a[2]))
                ELSE IF cc THEN Bool(a[2] <= b[2])
                ELSE IF aa THEN Bool(Len(a[2]) <= Len(b[2]))
                ELSE Nil
          [] op = "GtEqual" ->
                IF nn THEN Bool(a[2] >= b[2])
                ELSE IF ss THEN Bool(~StrLt(a[2], b[2]))
                ELSE IF aa THEN Bool(Len(a[2]) >= Len(b[2]))
                ELSE Nil

\* Operation::eval: left, then right, then the operator's match.
Operation_eval(o, sym, env) ==
    LET a == Expression_eval(o[2], sym, env)
    IN  IF ~IsOk(a) THEN a
        ELSE LET b == Expression_eval(o[4], sym, env)
             IN  IF ~IsOk(b) THEN b ELSE Ok(Operate(o[3], a[2], b[2]))

\* The tables a call's body runs on: children of the tables the call is
\* evaluated with.
call_sym(sym, params) == SymTab_new(sym, params)

call_env(env, arg_vals) == ValTab_new(env, arg_vals)

\* Call::eval.
Call_eval(c, sym, env) ==
    LET callee == Expression_eval(c[2], sym, env)
    IN  IF ~IsOk(callee) THEN callee
        ELSE IF callee[2][1] = "Function"
        THEN LET local_sym == call_sym(sym, callee[2][2])
                 arg_vals  == eval_each(c[3], sym, env)
             IN  IF ~IsOk(arg_vals) THEN arg_vals
                 ELSE Expression_eval(<<"Block", callee[2][3]>>, local_sym,
                                      call_env(env, arg_vals[2]))
        ELSE Ok(Nil)

\* Index::eval.
Index_eval(ix, sym, env) ==
    LET id == Expression_eval(ix[2], sym, env)
    IN  IF ~IsOk(id) THEN id
        ELSE IF id[2][1] = "Array"
        THEN LET n == Expression_eval(ix[3], sym, env)
             IN  IF ~IsOk(n) THEN n
                 ELSE IF n[2][1] = "Number" THEN remove(id[2][2], as_usize(n[2][2]))
                 ELSE Err(<<"invalid index">>)
        ELSE Ok(Nil)

\* A statement's evaluation returns its result and the tables as it leaves
\* them: [r, sym, env].
\* Binding::eval: the name is added and the value table grown before the
\* right-hand side is evaluated.
GrowsValTab_always(index, size) == TRUE

GrowsValTab(index, size) == index >= size

Binding_eval(b, sym, env) ==
    IF b[2][1] = "Identifier"
    THEN LET an   == add_name(sym, b[2][2])
             env1 == IF GrowsValTab(an.index, ValTab_size(env)) THEN ValTab_grow(env) ELSE env
             v    == Expression_eval(b[3], an.sym, env1)
         IN  IF ~IsOk(v) THEN [r |-> v, sym |-> an.sym, env |-> env1]
             ELSE LET s == set_value(env1, an.index, 0, v[2])
                  IN  IF IsOk(s) THEN [r |-> Ok(Nil), sym |-> an.sym, env |-> s[2]]
                      ELSE [r |-> Err(s[2] \o <<"error setting value">>),
                            sym |-> an.sym, env |-> env1]
    ELSE [r |-> Panic(<<"unreachable">>), sym |-> sym, env |-> env]

\* Assignment::eval.  Statement::eval has no arm that calls it.
Assignment_eval(a, sym, env) ==
    IF a[2][1] = "Identifier"
    THEN LET n == get_name(sym, a[2][2])
         IN  IF n[1] # "Some"
             THEN [r |-> Err(<<a[2][2], "undeclared variable">>), sym |-> sym, env |-> env]
             ELSE LET v == Expression_eval(a[3], sym, env)
                  IN  IF ~IsOk(v) THEN [r |-> v, sym |-> sym, env |-> env]
                      ELSE LET s == set_value(env, n[2], n[3], v[2])
                           IN  IF IsOk(s) THEN [r |-> Ok(Nil), sym |-> sym, env |-> s[2]]
                               ELSE [r |-> Err(s[2] \o <<"error setting value">>),
                                     sym |-> sym, env |-> env]
    ELSE [r |-> Panic(<<"unreachable">>), sym |-> sym, env |-> env]

\* Statement::eval: Expression and Binding are evaluated; Function and
\* Assignment fall to the `_ => Ok(Value::Nil)` arm.
Statement_eval(s, sym, env) ==
    CASE s[1] = "Expression" ->
            [r |-> Expression_eval(s[2], sym, env), sym |-> sym, env |-> env]
      [] s[1] = "Binding" -> Binding_eval(s, sym, env)
      [] OTHER -> [r |-> Ok(Nil), sym |-> sym, env |-> env]

\* The table nodes an evaluation creates, in order.  Call::eval is the only
\* place a table is created after main's three globals: SymTab::new (350)
\* before the arguments are evaluated, ValTab::new (358) after them.  The
\* depth of a node is the number of parent hops from it to the global table.
RECURSIVE Expression_created(_, _, _)
RECURSIVE created_each(_, _, _)
RECURSIVE Statement_created(_, _, _)

created_each(content, sym, env) ==
    IF Len(content) = 0 THEN <<>>
    ELSE Expression_created(Head(content), sym, env)
         \o (IF IsOk(Expression_eval(Head(content), sym, env))
             THEN created_each(Tail(content), sym, env) ELSE <<>>)

Expression_created(e, sym, env) ==
    CASE e[1] = "Block" ->
            IF Len(e[2]) > 0 THEN Statement_created(e[2][Len(e[2])], sym, env) ELSE <<>>
      [] e[1] = "Array" -> created_each(e[2], sym, env)
      [] e[1] = "Index" ->
            LET id == Expression_eval(e[2], sym, env)
            IN  Expression_created(e[2], sym, env)
                \o (IF IsOk(id) /\ id[2][1] = "Array"
                    THEN Expression_created(e[3], sym, env) ELSE <<>>)
      [] e[1] = "Operation" -> created_each(<<e[2], e[4]>>, sym, env)
      [] e[1] = "Call" ->
            LET callee == Expression_eval(e[2], sym, env)
            IN  Expression_created(e[2], sym, env)
                \o (IF IsOk(callee) /\ callee[2][1] = "Function"
                    THEN LET local_sym == call_sym(sym, callee[2][2])
                             arg_vals  == eval_each(e[3], sym, env)
                         IN  << <<"SymTab", Len(local_sym) - 1>> >>
                             \o created_each(e[3], sym, env)
                             \o (IF IsOk(arg_vals)
                                 THEN LET local_env == call_env(env, arg_vals[2])
                                      IN  << <<"ValTab", Len(local_env) - 1>> >>
                                          \o Expression_created(<<"Block", callee[2][3]>>,
                                                                local_sym, local_env)
                                 ELSE <<>>)
                    ELSE <<>>)
      [] OTHER -> <<>>

Statement_created(s, sym, env) ==
    CASE s[1] = "Expression" -> Expression_created(s[2], sym, env)
      [] s[1] = "Binding" /\ s[2][1] = "Identifier" ->
            LET an == add_name(sym, s[2][2])
            IN  Expression_created(s[3], an.sym,
                    IF GrowsValTab(an.index, ValTab_size(env)) THEN ValTab_grow(env) ELSE env)
      [] OTHER -> <<>>

\* ---------------------------------------------------------------------- Typer
RECURSIVE Expression_get_type(_, _, _, _)
RECURSIVE get_type_each(_, _, _, _)
RECURSIVE Operation_get_type(_, _, _, _)
RECURSIVE Index_get_type(_, _, _, _)

get_type_each(content, sym, env, val) ==
    IF Len(content) = 0 THEN Ok(<<>>)
    ELSE LET h == Expression_get_type(Head(content), sym, env, val)
         IN  IF ~IsOk(h) THEN h
             ELSE LET t == get_type_each(Tail(content), sym, env, val)
                  IN  IF ~IsOk(t) THEN t ELSE Ok(<<h[2]>> \o t[2])

\* Expression::get_type.  An Identifier's type is read with unwrap().
Expression_get_type(e, sym, env, val) ==
    CASE e[1] = "Number" -> Ok(TNumber)
      [] e[1] = "Str"    -> Ok(TStr)
      [] e[1] = "Char"   -> Ok(TChar)
      [] e[1] = "Bool"   -> Ok(TBool)
      [] e[1] = "Array"  ->
            LET types == get_type_each(e[2], sym, env, val)
            IN  IF IsOk(types) THEN Ok(TArray(types[2])) ELSE types
      [] e[1] = "Identifier" ->
            LET n == get_name(sym, e[2])
            IN  IF n[1] = "Some"
                THEN LET t == TypeTab_get_type(env, n[2], n[3])
                     IN  IF IsOk(t) THEN t ELSE Panic(<<"unwrap">> \o t[2])
                ELSE Err(<<e[2], "unexpected use of">>)
      [] e[1] = "Operation" -> Operation_get_type(e, sym, env, val)
      [] e[1] = "Index"     -> Index_get_type(e, sym, env, val)
      [] OTHER -> Ok(TUndefined)

\* The operand-type rules of Operation::get_type, per operator.
Arithmetic == {"Pow", "Mul", "Div", "Mod", "Add", "Sub"}

Comparison == {"Lt", "Gt", "LtEqual", "GtEqual"}

ArithmeticRule_lenient(a, b) ==
    IF a = TNumber /\ b = TNumber THEN Ok(TNumber)
    ELSE IF TAny \in {a, b} THEN Ok(TAny)
    ELSE Ok(TUndefined)

ArithmeticRule(a, b) ==
    IF a = TNumber /\ b = TNumber THEN Ok(TNumber)
    ELSE IF a = TAny /\ b = TNumber THEN Ok(TAny)
    ELSE IF a = TNumber /\ b = TAny THEN Ok(TAny)
    ELSE Err(<<"failed to operate">>)

ComparisonRule(a, b) ==
    IF a = TNumber /\ b = TNumber THEN Ok(TBool)
    ELSE IF a = TStr /\ b = TStr THEN Ok(TBool)
    ELSE IF a = TChar /\ b = TChar THEN Ok(TBool)
    ELSE Err(<<"failed to compare">>)

\* Operation::get_type.  Equal and NEqual fall to the `_ => Ok(Undefined)`
\* arm, which types neither operand.
Operation_get_type(o, sym, env, val) ==
    IF o[3] \in Arithmetic \cup Comparison
    THEN LET a == Expression_get_type(o[2], sym, env, val)
         IN  IF ~IsOk(a) THEN a
             ELSE LET b == Expression_get_type(o[4], sym, env, val)
                  IN  IF ~IsOk(b) THEN b
                      ELSE IF o[3] \in Arithmetic THEN ArithmeticRule(a[2], b[2])
                      ELSE ComparisonRule(a[2], b[2])
    ELSE Ok(TUndefined)

\* Index::get_type: the index expression is evaluated on the value tables.
Index_get_type(ix, sym, env, val) ==
    LET id == Expression_get_type(ix[2], sym, env, val)
    IN  IF ~IsOk(id) THEN id
        ELSE IF id[2][1] = "Array"
        THEN LET n == Expression_eval(ix[3], sym, val)
             IN  IF ~IsOk(n) THEN n
                 ELSE IF n[2][1] = "Number" THEN remove(id[2][2], as_usize(n[2][2]))
                 ELSE Err(<<"invalid index">>)
        ELSE IF id[2] = TAny THEN Ok(TAny)
        ELSE Err(<<"can't index">>)

\* Statement::get_type.
Statement_get_type(s, sym, env, val) ==
    IF s[1] = "Expression" THEN Expression_get_type(s[2], sym, env, val)
    ELSE Ok(TUndefined)

\* -------------------------------------------------------------------- Visitor
\* A visit returns its result and the symbol and type tables as it leaves
\* them: [r, sym, env].
RECURSIVE Expression_visit(_, _, _, _)
RECURSIVE visit_each(_, _, _, _, _)
RECURSIVE Statement_visit(_, _, _, _)
RECURSIVE Binding_visit(_, _, _, _)

\* `for x in items { x.visit(sym, env, val)? }` over statements or expressions.
visit_each(items, statements, sym, env, val) ==
    IF Len(items) = 0 THEN [r |-> Ok(<<>>), sym |-> sym, env |-> env]
    ELSE LET h == IF statements THEN Statement_visit(Head(items), sym, env, val)
                  ELSE Expression_visit(Head(items), sym, env, val)
         IN  IF ~IsOk(h.r) THEN h
             ELSE visit_each(Tail(items), statements, h.sym, h.env, val)

\* Expression::visit.  Lambda (and every literal) falls to `_ => Ok(())`.
Expression_visit(e, sym, env, val) ==
    CASE e[1] = "Block" -> visit_each(e[2], TRUE, sym, env, val)
      [] e[1] = "Array" -> visit_each(e[2], FALSE, sym, env, val)
      [] e[1] = "Identifier" ->
            [r   |-> IF get_name(sym, e[2])[1] = "Some" THEN Ok(<<>>)
                     ELSE Err(<<e[2], "undeclared use">>),
             sym |-> sym, env |-> env]
      [] e[1] = "Operation" -> visit_each(<<e[2], e[4]>>, FALSE, sym, env, val)
      [] e[1] = "Call"      -> visit_each(<<e[2]>> \o e[3], FALSE, sym, env, val)
      [] e[1] = "Index"     -> visit_each(<<e[2], e[3]>>, FALSE, sym, env, val)
      [] OTHER -> [r |-> Ok(<<>>), sym |-> sym, env |-> env]

\* Binding::visit: the name is added and the type table grown before the
\* right-hand side is typed; the right-hand side is typed, not visited.
GrowsTypeTab_always(index, size) == TRUE

GrowsTypeTab(index, size) == index >= size

Binding_visit(b, sym, env, val) ==
    IF b[2][1] = "Identifier"
    THEN LET an   == add_name(sym, b[2][2])
             env1 == IF GrowsTypeTab(an.index, TypeTab_size(env)) THEN TypeTab_grow(env) ELSE env
             t    == Expression_get_type(b[3], an.sym, env1, val)
         IN  IF ~IsOk(t) THEN [r |-> t, sym |-> an.sym, env |-> env1]
             ELSE LET s == TypeTab_set_type(env1, an.index, 0, t[2])
                  IN  IF IsOk(s) THEN [r |-> Ok(<<>>), sym |-> an.sym, env |-> s[2]]
                      ELSE [r |-> Err(s[2] \o <<"error setting type">>),
                            sym |-> an.sym, env |-> env1]
    ELSE [r |-> Err(<<"unexpected binding">>), sym |-> sym, env |-> env]

\* Statement::visit: Function and Assignment fall to `_ => Ok(())`.
Statement_visit(s, sym, env, val) ==
    CASE s[1] = "Expression" -> Expression_visit(s[2], sym, env, val)
      [] s[1] = "Binding"    -> Binding_visit(s, sym, env, val)
      [] OTHER -> [r |-> Ok(<<>>), sym |-> sym, env |-> env]

\* -------------------------------------------------------------------- Parser
\* A token is <<token_type, content>>.  The Traveler is the token sequence
\* and `top`, the 0-based position of the current token.
Token(token_type, content) == <<token_type, content>>

remaining(tokens, top) == Len(tokens) - top

current(tokens, top) ==
    IF top > Len(tokens) - 1 THEN tokens[Len(tokens)] ELSE tokens[top + 1]

current_content(tokens, top) == current(tokens, top)[2]

next(tokens, top) == IF top < Len(tokens) THEN top + 1 ELSE top

prev(tokens, top) == IF top > 0 THEN top - 1 ELSE top

\* Operand::from_str: the operator and its precedence rank.
from_str(v) ==
    CASE v = "^"  -> <<"Some", <<"Pow", 0>>>>
      [] v = "*"  -> <<"Some", <<"Mul", 1>>>>
      [] v = "/"  -> <<"Some", <<"Div", 1>>>>
      [] v = "%"  -> <<"Some", <<"Mod", 1>>>>
      [] v = "+"  -> <<"Some", <<"Add", 2>>>>
      [] v = "-"  -> <<"Some", <<"Sub", 2>>>>
      [] v = "==" -> <<"Some", <<"Equal", 3>>>>
      [] v = "!=" -> <<"Some", <<"NEqual", 3>>>>
      [] v = "<"  -> <<"Some", <<"Lt", 4>>>>
      [] v = ">"  -> <<"Some", <<"Gt", 4>>>>
      [] v = "<=" -> <<"Some", <<"LtEqual", 4>>>>
      [] v = ">=" -> <<"Some", <<"GtEqual", 4>>>>
      [] OTHER    -> <<"None">>

\* str::parse::<f64> on the one-digit literals the token streams hold.
parse_f64(content) ==
    CASE content = "0" -> 0 [] content = "1" -> 1 [] content = "2" -> 2
      [] content = "3" -> 3 [] content = "4" -> 4 [] content = "5" -> 5
      [] content = "6" -> 6 [] content = "7" -> 7 [] content = "8" -> 8
      [] content = "9" -> 9

\* Parser::skip_whitespace: the position after the line breaks and indents.
RECURSIVE skip_whitespace(_, _)
skip_whitespace(tokens, top) ==
    IF \/ current_content(tokens, top) = "\n"
       \/ current(tokens, top)[1] \in {"EOL", "Indent"}
    THEN IF remaining(tokens, next(tokens, top)) < 2 THEN next(tokens, top)
         ELSE skip_whitespace(tokens, next(tokens, top))
    ELSE top

\* Parser::term on the tokens of an operator chain: the end of the stream, an
\* integer literal, and the `_ => Err(unexpected)` arm (an operator or EOF
\* token where a term is expected).  [r |-> result, top |-> position after]
term(tokens, top) ==
    LET t == skip_whitespace(tokens, top)
    IN  IF remaining(tokens, t) < 2 THEN [r |-> Ok(<<"EOF">>), top |-> t]
        ELSE IF current(tokens, t)[1] = "IntLiteral"
        THEN [r |-> Ok(<<"Number", parse_f64(current_content(tokens, t))>>),
              top |-> next(tokens, t)]
        ELSE [r |-> Err(<<"unexpected", current_content(tokens, t)>>), top |-> t]

\* parser.rs 468: the operator just read is folded after the one on the
\* operator stack, which is folded first.
FoldsFirst_strict(precedence, top_precedence) == precedence > top_precedence

FoldsFirst(precedence, top_precedence) == precedence >= top_precedence

\* Pops two expressions and one operator into an Operation (469-480, 496-507).
Fold(ex, ops) ==
    LET left  == ex[Len(ex)]
        right == ex[Len(ex) - 1]
    IN  Append(SubSeq(ex, 1, Len(ex) - 2),
               <<"Operation", right, ops[Len(ops)][1], left>>)

Pop(stack) == SubSeq(stack, 1, Len(stack) - 1)

\* ------------------------------------------------------------------ programs
\* Constructors of the AST the parser builds.
Num(n)            == <<"Number", n>>
Id(name)          == <<"Identifier", name>>
Arr(content)      == <<"Array", content>>
Op(left, op, right) == <<"Operation", left, op, right>>
Lam(params, body) == <<"Lambda", params, body>>
CallE(callee, args) == <<"Call", callee, args>>
Idx(id, index)    == <<"Index", id, index>>
Blk(statements)   == <<"Block", statements>>
ExprS(e)          == <<"Expression", e>>
Let(name, right)  == <<"Binding", Id(name), right>>
Fn(name, params, body) == <<"Function", name, params, body>>
Assign(name, right) == <<"Assignment", Id(name), right>>
StrE(s)           == <<"Str", s>>
CharE(c)          == <<"Char", c>>
BoolE(b)          == <<"Bool", b>>

\* The statements programs are built from (source text on the right).
StmtPool == <<
    Let("a", Num(123)),                                      \* let a = 123
    Let("a", Arr(<<Num(1), Num(2), Num(3)>>)),               \* let a = {1, 2, 3}
    Fn("add", <<"a", "b">>, Op(Id("a"), "Add", Id("b"))),    \* let add a b = a + b
    ExprS(CallE(Id("add"), <<Num(1), Num(2)>>)),             \* add 1, 2
    Let("add", Lam(<<"a", "b">>, Op(Id("a"), "Add", Id("b")))), \* let add = fun a b -> a + b
    ExprS(Id("a")),                                          \* a
    Assign("a", Num(7)),                                     \* a = 7
    Let("f", Lam(<<"x">>, Op(Id("x"), "Add", Id("a")))),     \* let f = fun x -> x + a
    ExprS(CallE(Lam(<<"a">>, CallE(Id("f"), <<Num(0)>>)), <<Num(5)>>)), \* (fun a -> f 0) 5
    Let("g", Lam(<<"x">>, Blk(<<Let("y", Num(1)),            \* let g = fun x ->
                                ExprS(Op(Id("y"), "Add", Id("x")))>>))), \*   let y = 1 / y + x
    ExprS(CallE(Id("g"), <<Num(2)>>)),                       \* g 2
    ExprS(Op(Arr(<<Num(1), Num(2), Num(3)>>), "Sub", Num(1))), \* {1, 2, 3} - 1
    ExprS(Idx(Id("a"), Num(1))),                             \* a[1]
    ExprS(Id("x")),                                          \* x
    Let("h", Lam(<<"x">>, Arr(<<Id("x"), Num(2)>>))),        \* let h = fun x -> {x, 2}
    Let("a", CallE(Id("h"), <<Num(1)>>)),                    \* let a = h 1
    Assign("a", Id("x")),                                    \* a = x
    ExprS(Lam(<<"q">>, Id("x"))),                            \* fun q -> x
    ExprS(Op(Id("a"), "Pow", Num(3))),                       \* a ^ 3
    ExprS(Op(Id("a"), "Mul", Num(3))),                       \* a * 3
    ExprS(Op(Id("a"), "Div", Num(3))),                       \* a / 3
    ExprS(Op(Id("a"), "Mod", Num(3))),                       \* a % 3
    ExprS(Op(Num(3), "Sub", Id("a")))                        \* 3 - a
>>

Programs ==
    UNION { [1..n -> 1..Len(StmtPool)] : n \in 1..MaxStmts }

\* -------------------------------------------------------------------- main
VARIABLES
    stuff,      \* main: the parsed statements
    acc,        \* main: 1-based number of the statement `s` of the for loop
    pc,         \* main: "visit", "get_type", "eval" (the pass about to run on
                \*   s), "exit" (main returned), "panic" (the process aborted)
    symtab,     \* main: the global SymTab
    typetab,    \* main: the global TypeTab
    valtab,     \* main: the global ValTab
    printed,    \* what main has printed: <<"error", message>> or <<"value", v>>
    failed,     \* history: the pass whose error ended the loop, or "none"
    vals,       \* history: per statement evaluated so far, the result of s.eval
    created,    \* history: the table nodes the Evaluate pass has created so
                \*   far, in order: <<"SymTab", depth>>, <<"ValTab", depth>>
    tab_call,   \* the last call made on the ValTab `valtab` on its own:
                \*   [op, index, env_index, t, before, r], [op |-> "none"]
                \*   before any
    tokens,     \* Traveler: the token stream
    top,        \* Traveler: 0-based position of the current token
    ppc,        \* Parser: "idle", "expression", "operation" (entered),
                \*   "loop" (at the head of operation's while), "parse"
                \*   (Parser::parse runs), "returned"
    ex_stack,   \* Parser::operation: the expression stack
    op_stack,   \* Parser::operation: the <<operator, precedence>> stack
    done,       \* Parser::operation: the `done` flag
    parsed,     \* the ParserResult of Parser::expression, or of the
                \*   Parser::parse that returned last; <<>> before it returns
    frames,     \* Parser::parse: the routines entered and not yet returned,
                \*   innermost last; <<>> when no parse runs
    outer,      \* Parser::block: the Travelers [tokens, top] of the enclosing
                \*   Parsers while the Parser of a block runs, innermost last
    ret         \* [fn, r]: the routine below Parser::parse that returned last
                \*   and the ParserResult it gave to its caller;
                \*   [fn |-> "none", r |-> <<>>] before any

mainvars == <<stuff, acc, pc, symtab, typetab, valtab, printed, failed, vals, created>>

tabvars == <<tab_call>>

parservars == <<tokens, top, ppc, ex_stack, op_stack, done, parsed>>

framevars == <<frames, outer, ret>>

vars == <<stuff, acc, pc, symtab, typetab, valtab, printed, failed, vals, created,
          tab_call, tokens, top, ppc, ex_stack, op_stack, done, parsed,
          frames, outer, ret>>

\* main.rs 17-25: the parsed statements and the three fresh global tables.
\* No parse is running.
Init ==
    /\ \E p \in Programs : stuff = [i \in 1..Len(p) |-> StmtPool[p[i]]]
    /\ acc = 1
    /\ pc = "visit"
    /\ symtab = SymTab_new_global
    /\ typetab = TypeTab_new_global
    /\ valtab = ValTab_new_global
    /\ printed = <<>>
    /\ failed = "none"
    /\ vals = <<>>
    /\ created = <<>>
    /\ tab_call = [op |-> "none"]
    /\ tokens = <<Token("EOF", "")>>
    /\ top = 0
    /\ ppc = "idle"
    /\ ex_stack = <<>>
    /\ op_stack = <<>>
    /\ done = FALSE
    /\ parsed = <<>>
    /\ frames = <<>>
    /\ outer = <<>>
    /\ ret = [fn |-> "none", r |-> <<>>]

\* The `Err(e) => { println!("{}", e); break }` arm of a pass, or the abort
\* of the process when the pass panicked.
Stop(pass, r) ==
    /\ pc' = IF IsPanic(r) THEN "panic" ELSE "exit"
    /\ printed' = IF IsPanic(r) THEN printed ELSE Append(printed, <<"error", r[2]>>)
    /\ failed' = pass
    /\ acc' = acc

\* main.rs 27-34: s.visit(&symtab, &typetab, &valtab)
main_visit ==
    /\ pc = "visit"
    /\ LET v == Statement_visit(stuff[acc], symtab, typetab, valtab)
       IN  /\ symtab' = v.sym
           /\ typetab' = v.env
           /\ IF IsOk(v.r)
              THEN pc' = "get_type" /\ UNCHANGED <<acc, printed, failed>>
              ELSE Stop("visit", v.r)
    /\ UNCHANGED <<stuff, valtab, vals, created>>
    /\ UNCHANGED parservars
    /\ UNCHANGED tabvars
    /\ UNCHANGED framevars

\* main.rs 36-42: s.get_type(&symtab, &typetab, &valtab)
main_get_type ==
    /\ pc = "get_type"
    /\ LET t == Statement_get_type(stuff[acc], symtab, typetab, valtab)
       IN  IF IsOk(t)
           THEN pc' = "eval" /\ UNCHANGED <<acc, printed, failed>>
           ELSE Stop("get_type", t)
    /\ UNCHANGED <<stuff, symtab, typetab, valtab, vals, created>>
    /\ UNCHANGED parservars
    /\ UNCHANGED tabvars
    /\ UNCHANGED framevars

\* main.rs 44-55: s.eval(&symtab, &valtab), the print of the last value,
\* acc += 1 and the step of the for loop.
main_eval ==
    /\ pc = "eval"
    /\ LET e == Statement_eval(stuff[acc], symtab, valtab)
       IN  /\ symtab' = e.sym
           /\ valtab' = e.env
           /\ vals' = Append(vals, e.r)
           /\ created' = created \o Statement_created(stuff[acc], symtab, valtab)
           /\ IF IsOk(e.r)
              THEN /\ printed' = IF acc = Len(stuff)
                                 THEN Append(printed, <<"value", e.r[2]>>)
                                 ELSE printed
                   /\ acc' = acc + 1
                   /\ pc' = IF acc < Len(stuff) THEN "visit" ELSE "exit"
                   /\ UNCHANGED failed
              ELSE Stop("eval", e.r)
    /\ UNCHANGED <<stuff, typetab>>
    /\ UNCHANGED parservars
    /\ UNCHANGED tabvars
    /\ UNCHANGED framevars

Next == main_visit \/ main_get_type \/ main_eval

Spec == Init /\ [][Next]_vars

\* ----------------------------------------------- single-expression programs
\* main run on `let u = u`, `let a = {1, 2, 3}` and one more statement: an
\* operation on two operands, an index into a, a call with one argument, or a
\* binding whose right-hand side uses the name it binds.
Prelude == << Let("u", Id("u")), Let("a", Arr(<<Num(1), Num(2), Num(3)>>)) >>

ArrayLiterals ==
    { Arr(c) : c \in UNION { [1..n -> {Num(1), Num(2)}] : n \in 0..MaxLen } }

Operands ==
    { Num(1), Num(2), StrE(<<97>>), StrE(<<97, 98>>), CharE(97), CharE(98),
      BoolE(TRUE), Id("u"), Id("a") } \cup ArrayLiterals

Operators == { "Pow", "Mul", "Div", "Mod", "Add", "Sub", "Equal", "NEqual",
               "Lt", "Gt", "LtEqual", "GtEqual" }

Callees == { Id("a"), Id("u"), Num(1), StrE(<<97>>), CharE(97), BoolE(TRUE),
             Lam(<<"x">>, Id("x")), Lam(<<"x">>, Blk(<<>>)),
             Lam(<<"x">>, CallE(Lam(<<"y">>, Id("x")), <<Num(2)>>)),
             Lam(<<"x", "y">>, Id("x")), Lam(<<"x", "y">>, Id("y")) }

ExprPool ==
    { Op(l, o, r) : l \in Operands, o \in Operators, r \in Operands }
    \cup { Idx(Id("a"), Num(i)) : i \in 0..(MaxLen + 2) }
    \cup { CallE(c, <<Num(1)>>) : c \in Callees }

LastStatements ==
    { ExprS(e) : e \in ExprPool }
    \cup { Let("a", Id("a")), Let("w", Id("w")), Let("c", Idx(Id("a"), Id("c"))) }

ExprInit ==
    /\ \E s \in LastStatements : stuff = Prelude \o <<s>>
    /\ acc = 1
    /\ pc = "visit"
    /\ symtab = SymTab_new_global
    /\ typetab = TypeTab_new_global
    /\ valtab = ValTab_new_global
    /\ printed = <<>>
    /\ failed = "none"
    /\ vals = <<>>
    /\ created = <<>>
    /\ tab_call = [op |-> "none"]
    /\ tokens = <<Token("EOF", "")>>
    /\ top = 0
    /\ ppc = "idle"
    /\ ex_stack = <<>>
    /\ op_stack = <<>>
    /\ done = FALSE
    /\ parsed = <<>>
    /\ frames = <<>>
    /\ outer = <<>>
    /\ ret = [fn |-> "none", r |-> <<>>]

ExprSpec == ExprInit /\ [][Next]_vars

\* ------------------------------------------------------- ValTab on its own
\* A chain of ValTabs, as calls build them (ValTab::new on the caller's
\* table), and the calls set_value and get_value on its innermost table.
TabValues == { Nil, NumberV(1) }

Tables == UNION { [1..n -> TabValues] : n \in 0..MaxSlots }

TabChains == UNION { [1..d -> Tables] : d \in 1..MaxDepth }

TabInit ==
    /\ valtab \in TabChains
    /\ stuff = <<>>
    /\ acc = 1
    /\ pc = "exit"
    /\ symtab = SymTab_new_global
    /\ typetab = TypeTab_new_global
    /\ printed = <<>>
    /\ failed = "none"
    /\ vals = <<>>
    /\ created = <<>>
    /\ tab_call = [op |-> "none"]
    /\ tokens = <<Token("EOF", "")>>
    /\ top = 0
    /\ ppc = "idle"
    /\ ex_stack = <<>>
    /\ op_stack = <<>>
    /\ done = FALSE
    /\ parsed = <<>>
    /\ frames = <<>>
    /\ outer = <<>>
    /\ ret = [fn |-> "none", r |-> <<>>]

\* valtab.set_value(index, env_index, t)
tab_set_value ==
    /\ pc = "exit"
    /\ ppc = "idle"
    /\ \E index \in 0..MaxSlots, env_index \in 0..MaxDepth, t \in TabValues :
          LET r == set_value(valtab, index, env_index, t)
          IN  /\ valtab' = IF IsOk(r) THEN r[2] ELSE valtab
              /\ tab_call' = [op |-> "set_value", index |-> index, env_index |-> env_index,
                              t |-> t, before |-> valtab,
                              r |-> IF IsOk(r) THEN Ok(<<>>) ELSE r]
    /\ UNCHANGED <<stuff, acc, pc, symtab, typetab, printed, failed, vals, created>>
    /\ UNCHANGED parservars
    /\ UNCHANGED framevars

\* valtab.get_value(index, env_index)
tab_get_value ==
    /\ pc = "exit"
    /\ ppc = "idle"
    /\ \E index \in 0..MaxSlots, env_index \in 0..MaxDepth :
          tab_call' = [op |-> "get_value", index |-> index, env_index |-> env_index,
                       t |-> Nil, before |-> valtab,
                       r |-> get_value(valtab, index, env_index)]
    /\ UNCHANGED mainvars
    /\ UNCHANGED parservars
    /\ UNCHANGED framevars

TabNext == tab_set_value \/ tab_get_value

TabSpec == TabInit /\ [][TabNext]_vars

\* ------------------------------------------------- Parser::expression / operation
\* The operator tokens and the rows of literals the chains are built from.
OperatorContents == {"^", "*", "/", "%", "+", "-", "==", "!=", "<", ">", "<=", ">="}

LiteralRows == << <<"8", "3", "2", "5", "4">>, <<"1", "2", "3", "4", "5">> >>

\* The token stream of `t0 op1 t1 .. opk tk` followed by the EOF token.
Chain(row, ops) ==
    [i \in 1..(2 * Len(ops) + 2) |->
        IF i = 2 * Len(ops) + 2 THEN Token("EOF", "")
        ELSE IF i % 2 = 1 THEN Token("IntLiteral", row[((((i + 1) \div 2) - 1) % Len(row)) + 1])
        ELSE Token("Operator", ops[i \div 2])]

\* A Parser over the tokens of a chain, about to run expression().  No
\* program is running.
ParseInit ==
    /\ stuff = <<>>
    /\ acc = 1
    /\ pc = "exit"
    /\ symtab = SymTab_new_global
    /\ typetab = TypeTab_new_global
    /\ valtab = ValTab_new_global
    /\ printed = <<>>
    /\ failed = "none"
    /\ vals = <<>>
    /\ created = <<>>
    /\ tab_call = [op |-> "none"]
    /\ \E k \in 1..MaxOps : \E ops \in [1..k -> OperatorContents] :
          \E r \in 1..Len(LiteralRows) : tokens = Chain(LiteralRows[r], ops)
    /\ top = 0
    /\ ppc = "expression"
    /\ ex_stack = <<>>
    /\ op_stack = <<>>
    /\ done = FALSE
    /\ parsed = <<>>
    /\ frames = <<>>
    /\ outer = <<>>
    /\ ret = [fn |-> "none", r |-> <<>>]

\* Parser::expression (39-56) up to its call of operation.
parser_expression ==
    /\ ppc = "expression"
    /\ LET expr == term(tokens, skip_whitespace(tokens, top))
           after == IF remaining(tokens, expr.top) > 1
                    THEN skip_whitespace(tokens, expr.top) ELSE expr.top
       IN  /\ top' = after
           /\ IF /\ IsOk(expr.r)
                 /\ expr.r[2] # <<"EOF">>
                 /\ remaining(tokens, expr.top) > 1
                 /\ current(tokens, after)[1] = "Operator"
              THEN ppc' = "operation" /\ ex_stack' = <<expr.r[2]>> /\ parsed' = parsed
              ELSE ppc' = "returned" /\ ex_stack' = ex_stack /\ parsed' = expr.r
    /\ UNCHANGED <<tokens, op_stack, done>>
    /\ UNCHANGED mainvars
    /\ UNCHANGED tabvars
    /\ UNCHANGED framevars

\* Parser::operation 442-456: the first operator and the term after it.
operation_entry ==
    /\ ppc = "operation"
    /\ LET op == from_str(current_content(tokens, top))
           t1 == next(tokens, top)
           t2 == IF current_content(tokens, t1) = "\n" THEN next(tokens, t1) ELSE t1
           tm == term(tokens, t2)
       IN  /\ op_stack' = <<op[2]>>
           /\ top' = tm.top
           /\ IF IsOk(tm.r)
              THEN ppc' = "loop" /\ ex_stack' = Append(ex_stack, tm.r[2]) /\ parsed' = parsed
              ELSE ppc' = "returned" /\ ex_stack' = ex_stack /\ parsed' = tm.r
    /\ done' = FALSE
    /\ UNCHANGED tokens
    /\ UNCHANGED mainvars
    /\ UNCHANGED tabvars
    /\ UNCHANGED framevars

\* Parser::operation 458-508: one iteration of `while ex_stack.len() > 1`.
operation_loop ==
    /\ ppc = "loop"
    /\ Len(ex_stack) > 1
    /\ IF ~done /\ current(tokens, top)[1] # "Operator"
       THEN \* 460-463: done = true; continue
            /\ done' = TRUE
            /\ UNCHANGED <<top, ppc, ex_stack, op_stack, parsed>>
       ELSE IF ~done
       THEN LET op == from_str(current_content(tokens, top))[2]
                tm == term(tokens, next(tokens, top))
            IN  /\ top' = tm.top
                /\ done' = done
                /\ IF FoldsFirst(op[2], op_stack[Len(op_stack)][2])
                   THEN \* 468-488: fold, then push the term and the operator
                        IF IsOk(tm.r)
                        THEN /\ ex_stack' = Append(Fold(ex_stack, op_stack), tm.r[2])
                             /\ op_stack' = Append(Pop(op_stack), op)
                             /\ UNCHANGED <<ppc, parsed>>
                        ELSE /\ ex_stack' = Fold(ex_stack, op_stack)
                             /\ op_stack' = Pop(op_stack)
                             /\ ppc' = "returned"
                             /\ parsed' = tm.r
                   ELSE \* 490-507: push the term and the operator, then fold
                        IF IsOk(tm.r)
                        THEN /\ ex_stack' = Fold(Append(ex_stack, tm.r[2]), Append(op_stack, op))
                             /\ op_stack' = op_stack
                             /\ UNCHANGED <<ppc, parsed>>
                        ELSE /\ UNCHANGED <<ex_stack, op_stack>>
                             /\ ppc' = "returned"
                             /\ parsed' = tm.r
       ELSE \* 496-507 with done set: fold
            /\ ex_stack' = Fold(ex_stack, op_stack)
            /\ op_stack' = Pop(op_stack)
            /\ UNCHANGED <<top, done, ppc, parsed>>
    /\ UNCHANGED tokens
    /\ UNCHANGED mainvars
    /\ UNCHANGED tabvars
    /\ UNCHANGED framevars

\* Parser::operation 510: Ok(ex_stack.pop().unwrap())
operation_return ==
    /\ ppc = "loop"
    /\ Len(ex_stack) <= 1
    /\ parsed' = Ok(ex_stack[Len(ex_stack)])
    /\ ex_stack' = Pop(ex_stack)
    /\ ppc' = "returned"
    /\ UNCHANGED <<tokens, top, op_stack, done>>
    /\ UNCHANGED mainvars
    /\ UNCHANGED tabvars
    /\ UNCHANGED framevars

ParseNext == parser_expression \/ operation_entry \/ operation_loop \/ operation_return

ParseSpec == ParseInit /\ [][ParseNext]_vars

\* ------------------------------------------------------------ Parser::parse
\* The whole parser, one step per routine entry, loop iteration and return,
\* on token streams of line breaks, indents, identifiers, `fun` and `->`.
\* The streams hold no literal, no operator, no `let`, `=`, `(`, `{` or `[`:
\* the arms of term, statement and expression for those tokens are not
\* entered, and are left out of the CASEs below.

\* The longest token stream, the EOF token not counted.
MaxTokens == 6

TokenPool ==
    { Token("Keyword", "fun"), Token("Identifier", "x"), Token("Symbol", "->"),
      Token("EOL", "\n"), Token("Indent", " ") }

RECURSIVE StreamsOf(_)
StreamsOf(n) ==
    IF n = 0 THEN {<<>>}
    ELSE LET S == StreamsOf(n - 1)
         IN  S \cup {Append(s, t) : s \in S, t \in TokenPool}

\* The finite token streams that end with the EOF token.
Streams == {Append(s, Token("EOF", "")) : s \in StreamsOf(MaxTokens)}

\* Traveler::expect: the content of the current token when it has the type.
expect(toks, t, token_type) ==
    IF current(toks, t)[1] = token_type THEN Ok(current_content(toks, t))
    ELSE Err(<<"expected", token_type>>)

\* A routine just entered: its position, the Vec it fills (stack, args,
\* params), its counter and the expression it was handed.
Frame(fn) == [fn |-> fn, at |-> "start", list |-> <<>>, acc |-> 0, x |-> <<>>]

\* The routine that is running.
Running == frames[Len(frames)]

\* The frames when the running routine goes on as f, when it calls fn and
\* goes on as f after it, and when it returns.
Continues(f) == Append(Pop(frames), f)

Calls(f, fn) == Append(Append(Pop(frames), f), Frame(fn))

Returns == Pop(frames)

\* The running routine goes on, or calls: the frames are fs and the Traveler
\* is at t.
Goes(fs, t) ==
    /\ frames' = fs
    /\ top' = t
    /\ UNCHANGED <<ret, ppc, parsed>>

\* The running routine returns the expression or statement result r with
\* the Traveler at t.
Gives(t, r) ==
    /\ frames' = Returns
    /\ top' = t
    /\ ret' = [fn |-> Running.fn, r |-> r]
    /\ UNCHANGED <<ppc, parsed>>

\* Parser::parse returns r; the outermost parse has returned when no frame
\* is left.
Parsed(r) ==
    /\ frames' = Returns
    /\ parsed' = r
    /\ ppc' = IF Returns = <<>> THEN "returned" ELSE ppc
    /\ UNCHANGED <<top, ret>>

\* lambda's params.push: the names beyond the length of the longest stream
\* are not kept (no parse that returns has that many).
Pushed(params, param) ==
    IF Len(params) < MaxTokens THEN Append(params, param) ELSE params

\* A Parser over a token stream, about to run parse().  No program is running.
StreamInit ==
    /\ stuff = <<>>
    /\ acc = 1
    /\ pc = "exit"
    /\ symtab = SymTab_new_global
    /\ typetab = TypeTab_new_global
    /\ valtab = ValTab_new_global
    /\ printed = <<>>
    /\ failed = "none"
    /\ vals = <<>>
    /\ created = <<>>
    /\ tab_call = [op |-> "none"]
    /\ tokens \in Streams
    /\ top = 0
    /\ ppc = "parse"
    /\ ex_stack = <<>>
    /\ op_stack = <<>>
    /\ done = FALSE
    /\ parsed = <<>>
    /\ frames = <<Frame("parse")>>
    /\ outer = <<>>
    /\ ret = [fn |-> "none", r |-> <<>>]

\* Parser::parse (16-25): the head of the while, and the push of the
\* statement (or the `?` on its error).
Parser_parse ==
    /\ ppc = "parse" /\ frames # <<>> /\ Running.fn = "parse"
    /\ IF Running.at = "start"
       THEN IF remaining(tokens, top) > 1
            THEN Goes(Calls([Running EXCEPT !.at = "push"], "statement"),
                      skip_whitespace(tokens, top))
            ELSE Parsed(Ok(Running.list))
       ELSE IF IsErr(ret.r)
            THEN Parsed(ret.r)
            ELSE Goes(Continues([Running EXCEPT !.at = "start",
                                                !.list = Append(@, ret.r[2])]),
                      top)
    /\ UNCHANGED <<tokens, outer, ex_stack, op_stack, done>>
    /\ UNCHANGED mainvars
    /\ UNCHANGED tabvars

\* Parser::statement (409-438).
Parser_statement ==
    /\ ppc = "parse" /\ frames # <<>> /\ Running.fn = "statement"
    /\ IF Running.at = "start"
       THEN LET t    == skip_whitespace(tokens, top)
                ty   == current(tokens, t)[1]
                c    == current_content(tokens, t)
                wrap == [Running EXCEPT !.at = "wrap"]
            IN  CASE ty = "Symbol" /\ c = "\n" ->
                       Goes(Calls([Running EXCEPT !.at = "same"], "statement"),
                            next(tokens, t))
                  [] ty = "Symbol" /\ c # "\n" ->
                       Goes(Calls(wrap, "expression"), t)
                  [] ty = "Identifier"
                       /\ current_content(tokens, next(tokens, t)) # "=" ->
                       Goes(Calls(wrap, "expression"),
                            prev(tokens, next(tokens, t)))
                  [] ty = "Keyword" /\ c # "let" ->
                       Goes(Calls(wrap, "expression"), t)
                  [] ty \notin {"Symbol", "Identifier", "Keyword"} ->
                       Goes(Calls(wrap, "expression"), t)
       ELSE IF Running.at = "same" \/ IsErr(ret.r)
            THEN Gives(top, ret.r)
            ELSE Gives(top, Ok(ExprS(ret.r[2])))
    /\ UNCHANGED <<tokens, outer, ex_stack, op_stack, done>>
    /\ UNCHANGED mainvars
    /\ UNCHANGED tabvars

\* Parser::expression (39-56).
Parser_expression ==
    /\ ppc = "parse" /\ frames # <<>> /\ Running.fn = "expression"
    /\ IF Running.at = "start"
       THEN Goes(Calls([Running EXCEPT !.at = "term"], "term"),
                 skip_whitespace(tokens, top))
       ELSE IF IsErr(ret.r) \/ ret.r[2] = <<"EOF">>
            THEN Gives(top, ret.r)
            ELSE IF remaining(tokens, top) > 1
                 THEN LET t == skip_whitespace(tokens, top)
                      IN  CASE current(tokens, t)[1] # "Operator" ->
                                 Gives(t, ret.r)
                 ELSE Gives(top, ret.r)
    /\ UNCHANGED <<tokens, outer, ex_stack, op_stack, done>>
    /\ UNCHANGED mainvars
    /\ UNCHANGED tabvars

\* Parser::try_call (163-178), with the Traveler at t: call runs in the
\* place of the routine that asked.
Parser_try_call(callee, t) ==
    CASE current(tokens, t)[1] \in {"IntLiteral", "FloatLiteral", "BoolLiteral",
                                    "StringLiteral", "CharLiteral", "Identifier"} ->
           Goes(Continues([Frame("call") EXCEPT !.x = callee]), t)
      [] current(tokens, t)[1] = "Symbol" ->
           IF current_content(tokens, t) \in {"(", "{"}
           THEN Goes(Continues([Frame("call") EXCEPT !.x = callee]), t)
           ELSE Gives(t,
                     Err(<<"unexpected symbol", current_content(tokens, t)>>))
      [] OTHER -> Gives(t, Ok(callee))

\* Parser::term (58-143): lambda and call run in the place of term.
Parser_term ==
    /\ ppc = "parse" /\ frames # <<>> /\ Running.fn = "term"
    /\ LET t  == skip_whitespace(tokens, top)
           ty == current(tokens, t)[1]
           c  == current_content(tokens, t)
       IN  IF remaining(tokens, t) < 2
           THEN Gives(t, Ok(<<"EOF">>))
           ELSE CASE ty = "Identifier" ->
                       LET t1 == next(tokens, t)
                           c1 == current_content(tokens, t1)
                       IN  IF remaining(tokens, t1) > 1
                           THEN CASE c1 \in {"}", "]", ",", ")"} ->
                                       Gives(t1, Ok(Id(c)))
                                  [] c1 \notin {"}", "]", ",", ")", "["} ->
                                       Parser_try_call(Id(c), t1)
                           ELSE Gives(t1, Ok(Id(c)))
                  [] ty = "Symbol" /\ c \notin {"(", "{"} ->
                       Gives(t, Err(<<"unexpected symbol", c>>))
                  [] ty = "Keyword" ->
                       IF c = "fun"
                       THEN Goes(Continues(Frame("lambda")), t)
                       ELSE Gives(t, Err(<<"unexpected keyword", c>>))
                  [] ty \in {"Operator", "Indent", "EOL", "EOF"} ->
                       Gives(t, Err(<<"unexpected", c>>))
    /\ UNCHANGED <<tokens, outer, ex_stack, op_stack, done>>
    /\ UNCHANGED mainvars
    /\ UNCHANGED tabvars

\* Parser::call (251-296): the head of the while with its three arms, and
\* the push of the argument.
Parser_call ==
    /\ ppc = "parse" /\ frames # <<>> /\ Running.fn = "call"
    /\ LET result == Ok(CallE(Running.x, Running.list))
           arg    == [Running EXCEPT !.at = "arg"]
           back   == prev(tokens, top)
       IN  IF Running.at = "start"
           THEN IF current_content(tokens, top) # "\n"
                THEN IF current_content(tokens, top) = ","
                     THEN Goes(Calls(arg, "expression"), next(tokens, top))
                     ELSE IF Running.acc = 0
                     THEN Goes(Calls(arg, "expression"), top)
                     ELSE Gives(IF \/ current_content(tokens, back) # "!"
                                  \/ current_content(tokens, back) # ","
                               THEN next(tokens, back) ELSE back,
                               result)
                ELSE Gives(top, result)
           ELSE IF IsErr(ret.r)
                THEN Gives(top, ret.r)
                ELSE IF ret.r[2] = <<"EOF">>
                THEN Gives(top, result)
                ELSE Goes(Continues([Running EXCEPT !.at = "start",
                                                    !.list = Append(@, ret.r[2]),
                                                    !.acc = @ + 1]),
                          top)
    /\ UNCHANGED <<tokens, outer, ex_stack, op_stack, done>>
    /\ UNCHANGED mainvars
    /\ UNCHANGED tabvars

\* Parser::lambda (215-249): the first next(), the test of the while over
\* the parameters, its body, and the body of the lambda.
Parser_lambda ==
    /\ ppc = "parse" /\ frames # <<>> /\ Running.fn = "lambda"
    /\ CASE Running.at = "start" ->
              Goes(Continues([Running EXCEPT !.at = "params"]),
                   next(tokens, top))
         [] Running.at = "params" ->
              IF current_content(tokens, top) # "->"
              THEN Goes(Continues([Running EXCEPT !.at = "param"]), top)
              ELSE LET t1 == next(tokens, top)
                   IN  Goes(Calls([Running EXCEPT !.at = "body"],
                                  IF current_content(tokens, t1) = "\n"
                                  THEN "block" ELSE "expression"),
                            t1)
         [] Running.at = "param" ->
              LET param == expect(tokens, top, "Identifier")
                  t1    == next(tokens, top)
              IN  IF IsErr(param)
                  THEN Gives(top, param)
                  ELSE IF current(tokens, t1)[1] \in {"EOL", "EOF"}
                  THEN Gives(t1, Err(<<"expected '=' found eol/eof">>))
                  ELSE Goes(Continues([Running EXCEPT
                                          !.at = "params",
                                          !.list = Pushed(@, param[2])]),
                            t1)
         [] Running.at = "body" ->
              IF IsErr(ret.r)
              THEN Gives(top, ret.r)
              ELSE Gives(top, Ok(Lam(Running.list, ret.r[2])))
    /\ UNCHANGED <<tokens, outer, ex_stack, op_stack, done>>
    /\ UNCHANGED mainvars
    /\ UNCHANGED tabvars

\* Parser::block (298-332): one turn of the loop; at its break, a new Parser
\* over the collected tokens runs parse(), and block wraps what it returns.
Parser_block ==
    /\ ppc = "parse" /\ frames # <<>> /\ Running.fn = "block"
    /\ IF Running.at = "start"
       THEN LET cur  == current(tokens, top)
                t1   == next(tokens, top)
                head ==
                    IF cur[1] = "Indent"
                    THEN IF current_content(tokens, t1) = "\n"
                         THEN [t |-> next(tokens, t1), stack |-> Running.list,
                               brk |-> TRUE]
                         ELSE [t |-> t1, stack |-> Running.list, brk |-> FALSE]
                    ELSE IF cur[2] = "\n"
                    THEN IF current(tokens, t1)[1] = "Indent"
                         THEN [t |-> next(tokens, t1),
                               stack |-> Append(Running.list, cur), brk |-> FALSE]
                         ELSE [t |-> t1, stack |-> Append(Running.list, cur),
                               brk |-> TRUE]
                    ELSE [t |-> top, stack |-> Running.list, brk |-> FALSE]
            IN  IF head.brk \/ remaining(tokens, head.t) < 2
                THEN /\ outer' = Append(outer, [tokens |-> tokens, top |-> head.t])
                     /\ tokens' = head.stack
                     /\ Goes(Calls([Running EXCEPT !.at = "parse"], "parse"), 0)
                ELSE /\ Goes(Continues([Running EXCEPT
                                !.list = Append(head.stack, current(tokens, head.t))]),
                             next(tokens, head.t))
                     /\ UNCHANGED <<tokens, outer>>
       ELSE /\ tokens' = outer[Len(outer)].tokens
            /\ outer' = Pop(outer)
            /\ Gives(outer[Len(outer)].top,
                    IF IsErr(parsed) THEN Err(parsed[2]) ELSE Ok(Blk(parsed[2])))
    /\ UNCHANGED <<ex_stack, op_stack, done>>
    /\ UNCHANGED mainvars
    /\ UNCHANGED tabvars

StreamNext ==
    \/ Parser_parse
    \/ Parser_statement
    \/ Parser_expression
    \/ Parser_term
    \/ Parser_call
    \/ Parser_lambda
    \/ Parser_block

\* The parser is one sequential computation: a step that can be taken is taken.
StreamSpec == StreamInit /\ [][StreamNext]_vars /\ WF_vars(StreamNext)

\* ===================================================================== claims
\* The value bound to name in the global tables, as Expression::eval reads it.
GlobalValue(name) ==
    LET n == get_name(symtab, name)
    IN  IF n[1] = "Some" THEN get_value(valtab, n[2], n[3]) ELSE Err(<<name, "undeclared">>)

\* Statement i has just been evaluated (it is the last entry of vals).
JustEvaluated(i) == i \in 1..Len(stuff) /\ Len(vals) = i

\* A literal: an expression whose value is itself whatever the tables hold.
RECURSIVE IsLiteral(_)
IsLiteral(e) ==
    \/ e[1] \in {"Number", "Bool", "Str", "Char"}
    \/ e[1] = "Array" /\ \A k \in 1..Len(e[2]) : IsLiteral(e[2][k])

\* C1: a named function definition `let name p1 .. pn = body` behaves as a
\* named lambda binding: once the statement has gone through the three passes,
\* name is declared and bound to a function value, and the program
\* `let a = 123`, `let add a b = a + b`, `add 1, 2` ends with the value Number(3).
C1_NamedFunctionDefinition ==
    /\ \A i \in 1..Len(stuff) :
          (JustEvaluated(i) /\ stuff[i][1] = "Function" /\ IsOk(vals[i]))
              => /\ get_name(symtab, stuff[i][2])[1] = "Some"
                 /\ IsOk(GlobalValue(stuff[i][2]))
                 /\ GlobalValue(stuff[i][2])[2][1] = "Function"
    /\ (stuff = <<StmtPool[1], StmtPool[3], StmtPool[4]>> /\ pc \in {"exit", "panic"})
          => printed = << <<"value", NumberV(3)>> >>

\* C2: lexical closure: a function body reads a free name from the scope the
\* lambda was defined in.  With f = fun x -> x + a defined at the global scope
\* and a bound globally to a number n, the call `(fun a -> f 0) 5`, which calls
\* f from a scope that binds its own a to 5, yields 0 + n.
C2_LexicalClosure ==
    \A i \in 1..Len(stuff) :
        ( /\ JustEvaluated(i)
          /\ stuff[i] = StmtPool[9]
          /\ GlobalValue("f") = Ok(FunctionV(<<"x">>, <<ExprS(Op(Id("x"), "Add", Id("a")))>>))
          /\ IsOk(GlobalValue("a"))
          /\ GlobalValue("a")[2][1] = "Number" )
            => vals[i] = Ok(NumberV(0 + GlobalValue("a")[2][2]))

\* The operators <<operator, rank>> and the terms of the chain in `tokens`.
ChainOps == [i \in 1..((Len(tokens) - 2) \div 2) |-> from_str(tokens[2 * i][2])[2]]

ChainTerms == [i \in 1..(Len(tokens) \div 2) |-> <<"Number", parse_f64(tokens[2 * i - 1][2])>>]

\* The reference parse of terms[lo..hi] joined by ops[lo..hi-1]: the root is
\* the operator of the highest rank (the loosest), the rightmost one among
\* equals, so that lower ranks bind tighter and equal ranks group to the left.
RECURSIVE Reference(_, _, _, _)
Reference(terms, ops, lo, hi) ==
    IF lo = hi THEN terms[lo]
    ELSE LET m == CHOOSE m \in lo..(hi - 1) :
                     /\ \A j \in lo..(hi - 1) : ops[j][2] <= ops[m][2]
                     /\ \A j \in (m + 1)..(hi - 1) : ops[j][2] < ops[m][2]
         IN  <<"Operation", Reference(terms, ops, lo, m), ops[m][1],
                            Reference(terms, ops, m + 1, hi)>>

\* C3: precedence: for every operator chain Parser::operation builds the tree
\* of the reference parser, in which an operator of lower rank binds tighter
\* than any operator of higher rank.
C3_Precedence ==
    ppc = "returned" => parsed = Ok(Reference(ChainTerms, ChainOps, 1, Len(ChainTerms)))

\* (((t0 op1 t1) op2 t2) .. opk tk)
RECURSIVE LeftFold(_, _, _)
LeftFold(terms, ops, k) ==
    IF k = 0 THEN terms[1]
    ELSE <<"Operation", LeftFold(terms, ops, k - 1), ops[k][1], terms[k + 1]>>

SameRank == \A i, j \in 1..Len(ChainOps) : ChainOps[i][2] = ChainOps[j][2]

\* C4: left-associativity: a chain of operators of one precedence rank is
\* folded left to right, (((t0 op1 t1) op2 t2) .. opk tk); `8 - 3 - 2` is
\* parsed as Sub(Sub(8, 3), 2) and evaluates to 3.
C4_LeftAssociativity ==
    /\ (ppc = "returned" /\ SameRank)
          => parsed = Ok(LeftFold(ChainTerms, ChainOps, Len(ChainOps)))
    /\ (ppc = "returned" /\ tokens = Chain(LiteralRows[1], <<"-", "-">>))
          => /\ parsed = Ok(Op(Op(Num(8), "Sub", Num(3)), "Sub", Num(2)))
             /\ Expression_eval(parsed[2], SymTab_new_global, ValTab_new_global)
                    = Ok(NumberV(3))

\* C4 witness: operation has returned the tree of `8 - 3 - 2`.
C4_Witness ==
    /\ ppc = "returned"
    /\ tokens = Chain(LiteralRows[1], <<"-", "-">>)
    /\ parsed = Ok(Op(Op(Num(8), "Sub", Num(3)), "Sub", Num(2)))

\* C5: assignment: the statement `a = e` on a declared name writes the value
\* of e into the slot a was declared at, so that a then reads as that value;
\* on a name with no reachable declaration it is an error.
C5_Assignment ==
    \A i \in 1..Len(stuff) :
        (JustEvaluated(i) /\ stuff[i][1] = "Assignment" /\ IsOk(vals[i]))
            => /\ get_name(symtab, stuff[i][2][2])[1] = "Some"
               /\ IsOk(Expression_eval(stuff[i][3], symtab, valtab))
               /\ IsLiteral(stuff[i][3]) => GlobalValue(stuff[i][2][2]) = Ok(stuff[i][3])

\* C6: block sequencing: the statements of a block are evaluated in order,
\* each seeing the bindings of the earlier ones, and the block's value is the
\* last statement's: with g = fun x -> (let y = 1; y + x), `g 2` yields 3.
C6_BlockSequencing ==
    \A i \in 1..Len(stuff) :
        ( /\ JustEvaluated(i)
          /\ stuff[i] = ExprS(CallE(Id("g"), <<Num(2)>>))
          /\ GlobalValue("g") = Ok(FunctionV(<<"x">>,
                 <<Let("y", Num(1)), ExprS(Op(Id("y"), "Add", Id("x")))>>)) )
            => vals[i] = Ok(NumberV(3))

\* The names bound by the Binding statements among the first n statements.
BoundNames(n) == { stuff[i][2][2] : i \in { k \in 1..n : stuff[k][1] = "Binding" } }

\* The number of statements Statement::visit has been called on.
Visited == IF pc = "visit" THEN acc - 1 ELSE IF acc > Len(stuff) THEN Len(stuff) ELSE acc

\* The last Binding of name among the first n statements, 0 when none.
LastBinding(name, n) ==
    LET B == { k \in 1..n : stuff[k][1] = "Binding" /\ stuff[k][2][2] = name }
    IN  IF B = {} THEN 0 ELSE CHOOSE k \in B : \A j \in B : j <= k

\* C7: idempotent declaration: declaring a name again in the same scope
\* reuses its slot.  Each global table holds exactly one slot per name declared
\* so far, however often it was declared, and a read of a name declared twice
\* or more, with literals, yields the value of the latest declaration.
C7_IdempotentDeclaration ==
    /\ Len(symtab[1]) = Cardinality(BoundNames(Visited))
    /\ \A n \in BoundNames(Visited) :
          Cardinality({ k \in 1..Len(symtab[1]) : symtab[1][k] = n }) = 1
    /\ Len(typetab[1]) = Cardinality(BoundNames(Visited))
    /\ Len(valtab[1]) = Cardinality(BoundNames(Len(vals)))
    /\ \A k \in 1..Len(vals) :
          (stuff[k][1] = "Expression" /\ stuff[k][2][1] = "Identifier"
              /\ LastBinding(stuff[k][2][2], k) # 0
              /\ IsLiteral(stuff[LastBinding(stuff[k][2][2], k)][3]))
            => vals[k] = Ok(stuff[LastBinding(stuff[k][2][2], k)][3])

\* C7 witness: `let a = 123`, `let a = {1, 2, 3}`, `a` has run; the tables
\* hold one slot and the read printed the second value.
C7_Witness ==
    /\ stuff = <<StmtPool[1], StmtPool[2], StmtPool[6]>>
    /\ pc = "exit"
    /\ symtab = << <<"a">> >>
    /\ Len(typetab[1]) = 1
    /\ Len(valtab[1]) = 1
    /\ printed = << <<"value", ArrayV(<<NumberV(1), NumberV(2), NumberV(3)>>)>> >>

\* The names an expression uses that no enclosing lambda parameter or earlier
\* binding of its block declares.
RECURSIVE Uses(_, _)
RECURSIVE UsesEach(_, _, _)
RECURSIVE StatementUses(_, _)
RECURSIVE BlockUses(_, _)

UsesEach(items, k, bound) ==
    IF k > Len(items) THEN {} ELSE Uses(items[k], bound) \cup UsesEach(items, k + 1, bound)

Uses(e, bound) ==
    CASE e[1] = "Identifier" -> IF e[2] \in bound THEN {} ELSE {e[2]}
      [] e[1] = "Array"      -> UsesEach(e[2], 1, bound)
      [] e[1] = "Operation"  -> Uses(e[2], bound) \cup Uses(e[4], bound)
      [] e[1] = "Call"       -> Uses(e[2], bound) \cup UsesEach(e[3], 1, bound)
      [] e[1] = "Index"      -> Uses(e[2], bound) \cup Uses(e[3], bound)
      [] e[1] = "Lambda"     -> Uses(e[3], bound \cup { e[2][k] : k \in 1..Len(e[2]) })
      [] e[1] = "Block"      -> BlockUses(e[2], bound)
      [] OTHER -> {}

BlockUses(statements, bound) ==
    IF Len(statements) = 0 THEN {}
    ELSE StatementUses(Head(statements), bound)
         \cup BlockUses(Tail(statements),
                        IF Head(statements)[1] = "Binding"
                        THEN bound \cup {Head(statements)[2][2]} ELSE bound)

StatementUses(s, bound) ==
    CASE s[1] = "Expression" -> Uses(s[2], bound)
      [] s[1] = "Binding"    -> Uses(s[3], bound)
      [] s[1] = "Function"   -> Uses(s[4], bound \cup { s[3][k] : k \in 1..Len(s[3]) })
      [] s[1] = "Assignment" -> Uses(s[2], bound) \cup Uses(s[3], bound)

\* The names statement s uses that have no reachable declaration.
Undeclared(s) == { n \in StatementUses(s, {}) : get_name(symtab, n)[1] = "None" }

\* C8: undeclared use: Resolve fails on every statement that uses an
\* identifier with no reachable declaration, wherever the use occurs, with an
\* error naming it, and the statement is not evaluated.
C8_UndeclaredUse ==
    /\ (pc \in {"get_type", "eval"}) => Undeclared(stuff[acc]) = {}
    /\ (pc = "exit" /\ failed = "visit" /\ Undeclared(stuff[acc]) # {})
          => printed[1][2][1] \in Undeclared(stuff[acc])

\* Statement s is an Operation with one of ^ * / % - whose operand types are
\* inferred and are neither (Number, Number) nor Any with Number.
ArithmeticMismatch(s) ==
    /\ s[1] = "Expression"
    /\ s[2][1] = "Operation"
    /\ s[2][3] \in {"Pow", "Mul", "Div", "Mod", "Sub"}
    /\ LET a == Expression_get_type(s[2][2], symtab, typetab, valtab)
           b == Expression_get_type(s[2][4], symtab, typetab, valtab)
       IN  /\ IsOk(a)
           /\ IsOk(b)
           /\ <<a[2], b[2]>> \notin {<<TNumber, TNumber>>, <<TAny, TNumber>>, <<TNumber, TAny>>}

\* C9: a type mismatch is caught before evaluation: on such a statement the
\* Infer pass returns a type error, and Evaluate runs neither on that statement
\* nor on any later one.
C9_TypeMismatchBeforeEval ==
    (acc <= Len(stuff) /\ ArithmeticMismatch(stuff[acc]))
        => /\ Len(vals) < acc
           /\ \/ pc \in {"visit", "get_type"}
              \/ /\ pc = "exit"
                 /\ failed = "get_type"
                 /\ printed = << <<"error", <<"failed to operate">>>> >>

\* C9 witness: `{1, 2, 3} - 1` was stopped by the Infer pass with statements
\* left to run.
C9_Witness ==
    /\ acc < Len(stuff)
    /\ stuff[acc] = StmtPool[12]
    /\ pc = "exit"
    /\ failed = "get_type"
    /\ Len(vals) = acc - 1

\* C10: array indexing is 0-based and non-destructive: with an array of
\* length n bound to a and 0 <= i < n, the statement `a[i]` passes inference
\* and evaluates to the element at position i, and a keeps its n elements.
C10_ArrayIndexing ==
    \A i \in 1..Len(stuff) :
        LET s == stuff[i]
            a == GlobalValue(s[2][2][2])
        IN  ( /\ i = acc \/ JustEvaluated(i)
              /\ s[1] = "Expression"
              /\ s[2][1] = "Index"
              /\ s[2][2][1] = "Identifier"
              /\ s[2][3][1] = "Number"
              /\ IsOk(a)
              /\ a[2][1] = "Array"
              /\ s[2][3][2] \in 0..(Len(a[2][2]) - 1) )
                => /\ pc # "panic"
                   /\ i = acc => failed = "none"
                   /\ JustEvaluated(i) => vals[i] = Ok(a[2][2][s[2][3][2] + 1])

\* Statement i is the statement main is at, or one it has evaluated.
Current(i) == i \in 1..Len(stuff) /\ (i = acc \/ i <= Len(vals))

\* Statement s is the expression statement `l op r` with op among ops.
IsOperation(s, ops) == s[1] = "Expression" /\ s[2][1] = "Operation" /\ s[2][3] \in ops

\* x is before y in the lexicographic order of code-point sequences.
LexLess(x, y) ==
    \E k \in 1..(Len(x) + 1) :
        /\ \A j \in 1..(k - 1) : j <= Len(y) /\ x[j] = y[j]
        /\ k <= Len(y)
        /\ k <= Len(x) => x[k] < y[k]

\* a < b for two values of one of the four shapes (arrays by length).
Less(a, b) ==
    CASE a[1] = "Number" -> a[2] < b[2]
      [] a[1] = "Char"   -> a[2] < b[2]
      [] a[1] = "Str"    -> LexLess(a[2], b[2])
      [] a[1] = "Array"  -> Len(a[2]) < Len(b[2])

Ordering(op, a, b) ==
    CASE op = "Lt"      -> Less(a, b)
      [] op = "Gt"      -> Less(b, a)
      [] op = "LtEqual" -> ~Less(b, a)
      [] op = "GtEqual" -> ~Less(a, b)

\* C11: ordering comparisons: `l op r` with op among < > <= >= and l, r two
\* Numbers, two Strs, two Chars or two Arrays evaluates to Bool of that
\* ordering (arrays compared by length); Nil only for other operand pairs.
C11_OrderingComparisons ==
    \A i \in 1..Len(stuff) :
        LET s == stuff[i]
        IN  ( /\ Current(i)
              /\ IsOperation(s, {"Lt", "Gt", "LtEqual", "GtEqual"})
              /\ IsLiteral(s[2][2])
              /\ IsLiteral(s[2][4])
              /\ s[2][2][1] = s[2][4][1]
              /\ s[2][2][1] \in {"Number", "Str", "Char", "Array"} )
                => /\ Expression_eval(s[2], symtab, valtab)
                        = Ok(BoolE(Ordering(s[2][3], s[2][2], s[2][4])))
                   /\ i <= Len(vals)
                        => vals[i] = Ok(BoolE(Ordering(s[2][3], s[2][2], s[2][4])))

\* C12: array append with `+`: for `l + r` with l an array of length n and r
\* any value v, inference reports no type error and evaluation yields the
\* array of length n + 1 that is l followed by v; an array bound to a name
\* and used as l stays bound to that name unchanged.
C12_ArrayAppend ==
    \A i \in 1..Len(stuff) :
        LET s == stuff[i]
            l == Expression_eval(s[2][2], symtab, valtab)
            r == Expression_eval(s[2][4], symtab, valtab)
        IN  ( /\ Current(i)
              /\ IsOperation(s, {"Add"})
              /\ IsOk(l)
              /\ l[2][1] = "Array"
              /\ IsOk(r) )
                => /\ ~(acc = i /\ failed = "get_type")
                   /\ i <= Len(vals)
                        => /\ vals[i] = Ok(ArrayV(Append(l[2][2], r[2])))
                           /\ Len(vals[i][2][2]) = Len(l[2][2]) + 1
                           /\ (s[2][2][1] = "Identifier"
                                  /\ LastBinding(s[2][2][2], i) # 0
                                  /\ IsLiteral(stuff[LastBinding(s[2][2][2], i)][3]))
                                => l = Ok(stuff[LastBinding(s[2][2][2], i)][3])

\* The operand types the operator is defined for by its own inference rules.
DefinedFor(op) ==
    IF op \in {"Pow", "Mul", "Div", "Mod", "Add", "Sub"} THEN {TNumber}
    ELSE {TNumber, TStr, TChar}

\* C13: gradual typing: for `l op r` with op arithmetic (^ * / % + -) or a
\* comparison (< > <= >=), one operand of type Any and the other of a type the
\* operator is defined for, inference succeeds and returns Any.
C13_GradualTyping ==
    \A i \in 1..Len(stuff) :
        LET s == stuff[i]
            a == Expression_get_type(s[2][2], symtab, typetab, valtab)
            b == Expression_get_type(s[2][4], symtab, typetab, valtab)
        IN  ( /\ Current(i)
              /\ IsOperation(s, {"Pow", "Mul", "Div", "Mod", "Add", "Sub",
                                 "Lt", "Gt", "LtEqual", "GtEqual"})
              /\ IsOk(a)
              /\ IsOk(b)
              /\ \/ a[2] = TAny /\ b[2] \in DefinedFor(s[2][3])
                 \/ b[2] = TAny /\ a[2] \in DefinedFor(s[2][3]) )
                => /\ Expression_get_type(s[2], symtab, typetab, valtab) = Ok(TAny)
                   /\ ~(acc = i /\ failed = "get_type")

\* Structural equality of two values: the same variant and equal contents,
\* arrays of the same length with structurally equal elements at each position.
RECURSIVE StructEq(_, _)
StructEq(a, b) ==
    /\ a[1] = b[1]
    /\ CASE a[1] \in {"Number", "Bool", "Char"} -> a[2] = b[2]
         [] a[1] = "Str" ->
               Len(a[2]) = Len(b[2]) /\ \A k \in 1..Len(a[2]) : a[2][k] = b[2][k]
         [] a[1] = "Array" ->
               Len(a[2]) = Len(b[2]) /\ \A k \in 1..Len(a[2]) : StructEq(a[2][k], b[2][k])
         [] a[1] = "Function" -> a[2] = b[2] /\ a[3] = b[3]
         [] OTHER -> TRUE

C15_IndexOutOfRange ==
    \A i \in 1..Len(stuff) :
        LET s == stuff[i]
            base == Expression_eval(s[2][2], symtab, valtab)
        IN  ( /\ Current(i)
              /\ s[1] = "Expression"
              /\ s[2][1] = "Index"
              /\ s[2][3][1] = "Number"
              /\ IsOk(base)
              /\ base[2][1] = "Array"
              /\ s[2][3][2] \notin 0..(Len(base[2][2]) - 1) )
                => /\ pc # "panic"
                   /\ i <= Len(vals) => IsErr(vals[i])
                   /\ (pc = "exit" /\ acc = i)
                        => failed # "none" /\ printed[Len(printed)][1] = "error"

\* C16: calling a non-function is a runtime error: a Call whose callee
\* evaluates to a value that is not a Function, and a Call of a Function whose
\* body has no statements, both evaluate to an error, never to a value.
C16_CallNonFunction ==
    \A i \in 1..Len(stuff) :
        LET s == stuff[i]
            callee == Expression_eval(s[2][2], symtab, valtab)
        IN  ( /\ i <= Len(vals)
              /\ s[1] = "Expression"
              /\ s[2][1] = "Call"
              /\ IsOk(callee)
              /\ \/ callee[2][1] # "Function"
                 \/ callee[2][1] = "Function" /\ Len(callee[2][3]) = 0 )
                => /\ IsErr(vals[i])
                   /\ pc = "exit"
                   /\ failed = "eval"
                   /\ printed[Len(printed)][1] = "error"

\* The number of nodes of one kind created at parent-chain depth d.
CreatedAt(kind, d) == Cardinality({ k \in 1..Len(created) : created[k] = <<kind, d>> })

\* The TypeTab nodes at depth d >= 1: the program's only TypeTab chain is the
\* one main holds, and no pass adds a node to it.
TypeNodesAt(d) == IF d < Len(typetab) THEN 1 ELSE 0

\* C17: scope triples: every scope a call opens consists of one new SymTab
\* node, one new TypeTab node and one new ValTab node of the same depth; no
\* scope has a SymTab and a ValTab node without a matching TypeTab node.
C17_ScopeTriples ==
    \A k \in 1..Len(created) :
        LET d == created[k][2]
        IN  /\ d >= 1
            /\ CreatedAt("SymTab", d) = CreatedAt("ValTab", d)
            /\ CreatedAt("SymTab", d) = TypeNodesAt(d)

\* C18: declaration order: in `let n = rhs` the right-hand side is resolved
\* and typed before n becomes visible.  A use of n in rhs with no earlier
\* declaration of n is rejected by Resolve as an undeclared use and declares
\* nothing; with an earlier declaration it refers to that one, so `let n = n`
\* leaves n bound to the value it had.
C18_DeclarationOrder ==
    \A i \in 1..Len(stuff) :
        LET s == stuff[i]
            n == s[2][2]
            before == LastBinding(n, i - 1)
        IN  (s[1] = "Binding" /\ n \in Uses(s[3], {}) /\ Visited >= i)
                => IF before = 0
                   THEN /\ acc = i
                        /\ pc = "exit"
                        /\ failed = "visit"
                        /\ get_name(symtab, n)[1] = "None"
                   ELSE (/\ Len(vals) = i
                         /\ s[3] = Id(n)
                         /\ IsLiteral(stuff[before][3]))
                            => GlobalValue(n) = Ok(stuff[before][3])

\* C19: ValTab addressing: set_value(slot, depth, v) succeeds exactly when
\* the chain has a table `depth` parent hops from the receiver and slot is less
\* than that table's length.  On success that slot of that table holds v, every
\* other slot of every table and every length is unchanged, and
\* get_value(slot, depth) returns v; on failure an error is returned and no
\* table has changed.
C19_ValTabAddressing ==
    tab_call.op = "set_value" =>
        LET b  == tab_call.before
            d  == tab_call.env_index
            sl == tab_call.index
            addressed == d < Len(b) /\ sl < Len(b[d + 1])
        IN  /\ IsOk(tab_call.r) <=> addressed
            /\ addressed
                  => /\ Len(valtab) = Len(b)
                     /\ \A k \in 1..Len(b) :
                           /\ Len(valtab[k]) = Len(b[k])
                           /\ \A j \in 1..Len(b[k]) :
                                 valtab[k][j] = IF k = d + 1 /\ j = sl + 1
                                                THEN tab_call.t ELSE b[k][j]
                     /\ get_value(valtab, sl, d) = Ok(tab_call.t)
            /\ ~addressed => IsErr(tab_call.r) /\ valtab = b

\* C19 witness: a set_value through one parent hop has changed a slot of the
\* parent table.
C19_Witness ==
    /\ tab_call.op = "set_value"
    /\ tab_call.env_index = 1
    /\ IsOk(tab_call.r)
    /\ valtab[2] # tab_call.before[2]
    /\ valtab[1] = tab_call.before[1]

\* The type inference gives a literal.
RECURSIVE TypeOfLiteral(_)
TypeOfLiteral(e) ==
    IF e[1] = "Array" THEN TArray([k \in 1..Len(e[2]) |-> TypeOfLiteral(e[2][k])])
    ELSE <<e[1]>>

\* C20: lock-step at statement boundaries: once a top-level statement has
\* completed the three passes without error, the global SymTab, TypeTab and
\* ValTab have the same number of slots; slot i of the TypeTab and of the
\* ValTab hold the type and the value last declared for the name in slot i of
\* the SymTab; and a declaration has grown each table by at most one slot.
C20_LockStep ==
    (failed = "none" /\ pc \in {"visit", "exit"})
        => /\ Len(symtab[1]) = Len(typetab[1])
           /\ Len(symtab[1]) = Len(valtab[1])
           /\ Len(symtab[1]) <= Cardinality({ k \in 1..Len(vals) : stuff[k][1] = "Binding" })
           /\ \A i \in 1..Len(symtab[1]) :
                 LET last == LastBinding(symtab[1][i], Len(vals))
                 IN  /\ last # 0
                     /\ IsLiteral(stuff[last][3])
                           => /\ valtab[1][i] = stuff[last][3]
                              /\ typetab[1][i] = TypeOfLiteral(stuff[last][3])
                     /\ stuff[last][3][1] = "Lambda"
                           => /\ valtab[1][i] = Lambda_eval(stuff[last][3])[2]
                              /\ typetab[1][i] = TUndefined

\* C20 witness: `let a = 123`, `let f = fun x -> x + a`, `let a = {1, 2, 3}`
\* have run: two slots in each table, slot 0 redeclared.
C20_Witness ==
    /\ stuff = <<StmtPool[1], StmtPool[8], StmtPool[2]>>
    /\ pc = "exit"
    /\ failed = "none"
    /\ symtab = << <<"a", "f">> >>
    /\ typetab[1][1] = TArray(<<TNumber, TNumber, TNumber>>)
    /\ valtab[1][1] = ArrayV(<<NumberV(1), NumberV(2), NumberV(3)>>)

\* The errors of ValTab::get_value.
GetValueErrors ==
    { <<"can't get value of invalid value index">>,
      <<"can't get value with invalid value index">> }

\* C21: no out-of-range table access: whenever an identifier resolves in the
\* SymTab chain to (slot, depth), the ValTab chain in use has that slot at
\* that depth, so the get_value that follows succeeds: no pass of any statement
\* ends in a get_value error.  This includes reads made while a binding is
\* being declared and reads of the parameters of a call given fewer or more
\* arguments than parameters.
C21_NoOutOfRangeAccess ==
    /\ \A k \in 1..Len(printed) :
          printed[k][1] = "error" => printed[k][2] \notin GetValueErrors
    /\ \A i \in 1..Len(vals) :
          IsErr(vals[i]) => vals[i][2] \notin GetValueErrors

\* C22: Parser::parse on a finite token stream that ends with the EOF token
\* terminates: it returns a statement sequence or a ParserError (every loop
\* of the routines it runs, the Parser of a block included, comes to an end).
C22_ParserTermination ==
    <>(ppc = "returned" /\ (IsOk(parsed) \/ IsErr(parsed)))

\* The Parser of a block is in the loop of lambda over the parameters at the
\* end of its token stream, on an identifier: next() no longer moves.
C22_Witness ==
    /\ frames # <<>>
    /\ outer # <<>>
    /\ Running.fn = "lambda"
    /\ Running.at = "params"
    /\ remaining(tokens, top) = 0
    /\ current(tokens, top)[1] = "Identifier"

====
